---- MODULE Spec2Model ----
(***************************************************************************)
(* A model of saucerest.py: the SauceClient REST wrapper, its batch poller *)
(* (wait_for_jobs), its tunnel health monitor (is_tunnel_healthy,          *)
(* prune_unhealthy_tunnels) and the SSH liveness probe (_is_ssh_host_up).  *)
(*                                                                         *)
(* Every client method runs in the frame of the thread that called it.     *)
(* frame[th] holds the locals of that call and, once the call has ended,   *)
(* its result.  The remote service, the HTTP library and the probed host   *)
(* are the environment: what they answer is chosen with \E in the step     *)
(* that asks them.                                                         *)
(***************************************************************************)
EXTENDS Integers, Sequences, FiniteSets, TLC

\* ------------------------------------------------------------------ bounds

\* wait_for_jobs: the largest SLEEP_INTERVAL / TIMEOUT a caller configures
MaxSleep == 2
MaxTimeout == 3
\* the largest batch get_jobs answers with
MaxJobs == 2
\* polls of one wait_for_jobs call that the model follows (a call whose
\* elapsed time never grows would poll forever)
MaxFetches == 61
\* the largest connect_tries of a direct _is_ssh_host_up call
MaxTries == 4
\* the flag-based reports counted per insertion of an identifier
ReportCap == 2
\* the largest number of tunnels list_tunnels answers with
MaxListed == 2

\* ------------------------------------------------------- program constants

DefaultSleepInterval == 5
DefaultTimeout == 300
DefaultConnectTries == 3

\* ------------------------------------------------------------ value spaces

Threads == {1, 2}
\* the thread of the single-threaded client of Spec
Main == 1

TunnelIds == {"A", "B", "C"}
Hosts == {"h1", "h2"}
TunnelStatuses == {"running", "halted", "booting"}
JobStatuses == {"pending", "running", "complete", "error"}
\* the domain names tunnels serve and callers ask for
Domains == {"d1", "d2"}

\* the `domains` argument of delete_tunnels_by_domains: lists of domains
DomainLists ==
    { <<>>, <<"d1">>, <<"d2">>, <<"d1", "d2">>, <<"d2", "d1">> }

\* what list_tunnels answers with: the DomainNames of each tunnel listed;
\* the tunnel at place k of the list is the tunnel of _id k
RECURSIVE Listings(_)
Listings(n) ==
    IF n = 0 THEN { <<>> }
    ELSE LET shorter == Listings(n - 1)
         IN  shorter \cup { Append(l, dn) : l \in { m \in shorter : Len(m) = n - 1 },
                                              dn \in SUBSET Domains }

\* what sock.recv(4096) can hand back, as strings of characters
Banners ==
    { <<>>,
      <<"S", "S", "H", "-", "2">>,
      <<"S", "S", "H", "-">>,
      <<"S", "S", "H">>,
      <<"H", "T", "T", "P", "/">>,
      <<"x", "S", "S", "H", "-">> }

SSHPrefix == <<"S", "S", "H", "-">>

\* what one connection attempt of the probe ends with
SockOutcomes ==
    [kind : {"timeout", "error"}, data : {<<>>}] \cup [kind : {"data"}, data : Banners]

NoDoc == [valid |-> FALSE, Status |-> "-", Host |-> "-"]
\* response bodies: a tunnel document, or bytes that are no JSON
Contents == {NoDoc} \cup [valid : {TRUE}, Status : TunnelStatuses, Host : Hosts]

\* what self.http.request ends with: an exception, or a response body
HttpOutcomes ==
    [exc : {"ServerNotFoundError", "socket.error", "AttributeError", "HTTPException"},
     content : {NoDoc}]
    \cup [exc : {"none"}, content : Contents]

\* the lists of the statuses of n jobs
RECURSIVE JobLists(_)
JobLists(n) ==
    IF n = 0 THEN { <<>> }
    ELSE { Append(js, s) : js \in JobLists(n - 1), s \in JobStatuses }

\* what self.get_jobs(batch=batch_id) ends with for a batch of n jobs.
\* SauceClient defines no get_jobs: the attribute lookup raises
\* AttributeError unless a subclass or the caller supplies the method, which
\* then answers with the batch's jobs or fails as an accessor does.
GetJobsOutcomes(n) ==
    [exc : {"AttributeError", "SauceRestError"}, jobs : { <<>> }]
    \cup [exc : {"none"}, jobs : JobLists(n)]

\* every job of the list is in a terminal state
AllTerminal(jobs) ==
    \A k \in 1..Len(jobs) : jobs[k] \in {"complete", "error"}

\* ------------------------------------------------------------------- state

VARIABLES
    unhealthy_tunnels,  \* self.unhealthy_tunnels
    SLEEP_INTERVAL,     \* self.SLEEP_INTERVAL
    TIMEOUT,            \* self.TIMEOUT
    frame,              \* thread -> the locals and the result of its call
    reports             \* tunnel id -> flag-based unhealthy reports since it
                        \* was last inserted into the set (history)

vars == <<unhealthy_tunnels, SLEEP_INTERVAL, TIMEOUT, frame, reports>>

NoRet == [kind |-> "none", val |-> "-"]
Return(v) == [kind |-> "return", val |-> v]
Raise(e) == [kind |-> "raise", val |-> e]

NoResp == [exc |-> "none", content |-> NoDoc]

IdleFrame ==
    [pc |-> "idle", op |-> "none", ret |-> NoRet,
     \* is_tunnel_healthy / prune_unhealthy_tunnels
     tunnel_id |-> "-", tunnels_of_concern |-> {}, U0 |-> {}, reports0 |-> 0,
     gets |-> 0, resp |-> NoResp, tunnel |-> NoDoc, attachment |-> FALSE,
     \* _is_ssh_host_up
     host |-> "-", connect_tries |-> 0, i |-> 0, attempts |-> 0,
     connected |-> FALSE, data |-> <<>>,
     \* wait_for_jobs
     n |-> 0, t |-> 0, jobs |-> <<>>, fetches |-> 0, sleeps |-> 0,
     \* history of the call: what its first fetch showed, and whether every
     \* fetch so far showed a job that is not terminal
     first |-> "-", allPending |-> TRUE,
     \* delete_tunnels_by_domains: the argument, the tunnels listed, the
     \* place of the tunnel the outer loop is at, and the delete requests
     \* issued so far for each tunnel listed (history)
     domains |-> <<>>, tunnels |-> <<>>, k |-> 0, deletes |-> <<>>]

\* a thread starts a call when it is in none
CanCall(th) == frame[th].pc = "idle"

\* __init__
Init ==
    /\ unhealthy_tunnels = {}
    /\ SLEEP_INTERVAL = DefaultSleepInterval
    /\ TIMEOUT = DefaultTimeout
    /\ frame = [th \in Threads |-> IdleFrame]
    /\ reports = [x \in TunnelIds |-> 0]

\* ----------------------------------------------------------- REST accessor

\* the slip of catching ServerNotFoundError alone: socket.error passes through
_http_request_Unwrapped(o) ==
    IF o.exc \in {"ServerNotFoundError", "AttributeError"}
    THEN [kind |-> "raise", exc |-> "SauceRestError", doc |-> NoDoc]
    ELSE IF o.exc # "none"
         THEN [kind |-> "raise", exc |-> o.exc, doc |-> NoDoc]
         ELSE [kind |-> "return", exc |-> "none", doc |-> o.content]

\* the slip of leaving out the `except AttributeError` clause
_http_request_Narrow(o) ==
    IF o.exc \in {"ServerNotFoundError", "socket.error"}
    THEN [kind |-> "raise", exc |-> "SauceRestError", doc |-> NoDoc]
    ELSE IF o.exc # "none"
         THEN [kind |-> "raise", exc |-> o.exc, doc |-> NoDoc]
         ELSE [kind |-> "return", exc |-> "none", doc |-> o.content]

\* _http_request: the transport failures it catches become SauceRestError,
\* any other exception of the HTTP library passes through as it is
_http_request(o) ==
    IF o.exc \in {"ServerNotFoundError", "socket.error", "AttributeError"}
    THEN [kind |-> "raise", exc |-> "SauceRestError", doc |-> NoDoc]
    ELSE IF o.exc # "none"
         THEN [kind |-> "raise", exc |-> o.exc, doc |-> NoDoc]
         ELSE [kind |-> "return", exc |-> "none", doc |-> o.content]

\* _loads: a body that is no JSON raises SauceRestError
_loads(content) ==
    IF content.valid
    THEN [kind |-> "return", exc |-> "none", doc |-> content]
    ELSE [kind |-> "raise", exc |-> "SauceRestError", doc |-> NoDoc]

\* get, without an attachment: the request, then the parse of its body
get(o) ==
    LET r == _http_request(o)
    IN  IF r.kind = "raise" THEN r ELSE _loads(r.doc)

\* get with an attachment: the body of the response as it is, not parsed
get_attachment(o) == _http_request(o)

\* list, create, attach, delete: the request, then the parse of its body
list(o) ==
    LET r == _http_request(o)
    IN  IF r.kind = "raise" THEN r ELSE _loads(r.doc)

create(o) ==
    LET r == _http_request(o)
    IN  IF r.kind = "raise" THEN r ELSE _loads(r.doc)

attach(o) ==
    LET r == _http_request(o)
    IN  IF r.kind = "raise" THEN r ELSE _loads(r.doc)

delete(o) ==
    LET r == _http_request(o)
    IN  IF r.kind = "raise" THEN r ELSE _loads(r.doc)

\* the accessor operations; only get takes an attachment
AccessorNames == {"get", "list", "create", "attach", "delete"}

AccessorCalls ==
    { c \in [name : AccessorNames, attachment : BOOLEAN] :
         c.attachment => c.name = "get" }

\* what the accessor call c ends with when the HTTP request ends with o
AccessorResult(c, o) ==
    CASE c.name = "get" -> IF c.attachment THEN get_attachment(o) ELSE get(o)
      [] c.name = "list" -> list(o)
      [] c.name = "create" -> create(o)
      [] c.name = "attach" -> attach(o)
      [] c.name = "delete" -> delete(o)

get_tunnel(o) == get(o)

\* ------------------------------------------------------ the caller's moves

Upd(th, f) == frame' = [frame EXCEPT ![th] = f]

\* a frame for a new call of op, made while the set is U
NewFrame(op, pc) ==
    [IdleFrame EXCEPT !.op = op, !.pc = pc, !.U0 = unhealthy_tunnels]

\* the caller flags tunnel x: it adds x to client.unhealthy_tunnels
Flag(th, x) ==
    /\ CanCall(th)
    /\ unhealthy_tunnels' = unhealthy_tunnels \cup {x}
    /\ reports' = [reports EXCEPT ![x] = IF x \in unhealthy_tunnels THEN @ ELSE 0]
    /\ Upd(th, [NewFrame("flag", "done") EXCEPT !.tunnel_id = x])
    /\ UNCHANGED <<SLEEP_INTERVAL, TIMEOUT>>

\* the caller configures the poller before a poll
SetConfig(th, si, to) ==
    /\ CanCall(th)
    /\ SLEEP_INTERVAL' = si
    /\ TIMEOUT' = to
    /\ Upd(th, NewFrame("configure", "done"))
    /\ UNCHANGED <<unhealthy_tunnels, reports>>

\* the caller takes the result (or the exception) of the call that ended
Resume(th) ==
    /\ frame[th].pc = "done"
    /\ Upd(th, IdleFrame)
    /\ UNCHANGED <<unhealthy_tunnels, SLEEP_INTERVAL, TIMEOUT, reports>>

\* a call of get, list, create, attach or delete (and of the methods that
\* only forward to them: get_script, create_job, list_tunnels, ...)
Accessor(th, c) ==
    /\ CanCall(th)
    /\ \E o \in HttpOutcomes :
          LET r == AccessorResult(c, o)
          IN  Upd(th, [NewFrame(c.name, "done")
                          EXCEPT !.attachment = c.attachment,
                                 !.gets = 1,
                                 !.resp = o,
                                 !.tunnel = r.doc,
                                 !.ret = IF r.kind = "raise" THEN Raise(r.exc)
                                         ELSE IF c.attachment THEN Return("raw")
                                         ELSE Return("json")])
    /\ UNCHANGED <<unhealthy_tunnels, SLEEP_INTERVAL, TIMEOUT, reports>>

\* ------------------------------------------------------- is_tunnel_healthy

Call_is_tunnel_healthy(th, x) ==
    /\ CanCall(th)
    /\ Upd(th, [NewFrame("is_tunnel_healthy", "ith_test")
                   EXCEPT !.tunnel_id = x, !.reports0 = reports[x]])
    /\ UNCHANGED <<unhealthy_tunnels, SLEEP_INTERVAL, TIMEOUT, reports>>

\* the slip of leaving out the test of the unhealthy set
IthTest_NoFlagCheck(th) ==
    /\ frame[th].pc = "ith_test"
    /\ Upd(th, [frame[th] EXCEPT !.pc = "ith_get"])
    /\ UNCHANGED <<unhealthy_tunnels, SLEEP_INTERVAL, TIMEOUT, reports>>

\* if tunnel_id in self.unhealthy_tunnels:
IthTest(th) ==
    /\ frame[th].pc = "ith_test"
    /\ Upd(th, [frame[th] EXCEPT !.pc =
                   IF frame[th].tunnel_id \in unhealthy_tunnels
                   THEN "ith_remove" ELSE "ith_get"])
    /\ UNCHANGED <<unhealthy_tunnels, SLEEP_INTERVAL, TIMEOUT, reports>>

\* a flag-based report of x is counted, up to ReportCap
Reported(x) ==
    [reports EXCEPT ![x] = IF @ < ReportCap THEN @ + 1 ELSE @]

\* the slip of reporting a flagged tunnel without clearing its flag
IthRemove_KeepsFlag(th) ==
    /\ frame[th].pc = "ith_remove"
    /\ reports' = Reported(frame[th].tunnel_id)
    /\ Upd(th, [frame[th] EXCEPT !.pc = "done", !.ret = Return("False")])
    /\ UNCHANGED <<unhealthy_tunnels, SLEEP_INTERVAL, TIMEOUT>>

\* the slip of clearing the flag without the `return False`
IthRemove_FallsThrough(th) ==
    /\ frame[th].pc = "ith_remove"
    /\ unhealthy_tunnels' = unhealthy_tunnels \ {frame[th].tunnel_id}
    /\ Upd(th, [frame[th] EXCEPT !.pc = "ith_get"])
    /\ UNCHANGED <<SLEEP_INTERVAL, TIMEOUT, reports>>

\* the slip of clearing the whole set for one flag
IthRemove_ClearsAll(th) ==
    /\ frame[th].pc = "ith_remove"
    /\ unhealthy_tunnels' = {}
    /\ reports' = Reported(frame[th].tunnel_id)
    /\ Upd(th, [frame[th] EXCEPT !.pc = "done", !.ret = Return("False")])
    /\ UNCHANGED <<SLEEP_INTERVAL, TIMEOUT>>

\* self.unhealthy_tunnels.remove(tunnel_id); return False
\* set.remove raises KeyError when the element is not in the set
IthRemove(th) ==
    /\ frame[th].pc = "ith_remove"
    /\ IF frame[th].tunnel_id \in unhealthy_tunnels
       THEN /\ unhealthy_tunnels' = unhealthy_tunnels \ {frame[th].tunnel_id}
            /\ reports' = Reported(frame[th].tunnel_id)
            /\ Upd(th, [frame[th] EXCEPT !.pc = "done", !.ret = Return("False")])
       ELSE /\ Upd(th, [frame[th] EXCEPT !.pc = "done", !.ret = Raise("KeyError")])
            /\ UNCHANGED <<unhealthy_tunnels, reports>>
    /\ UNCHANGED <<SLEEP_INTERVAL, TIMEOUT>>

\* try: tunnel = self.get_tunnel(tunnel_id)
\* except SauceRestError: return False
IthGet(th) ==
    /\ frame[th].pc = "ith_get"
    /\ \E o \in HttpOutcomes :
          LET r == get_tunnel(o)
              f == [frame[th] EXCEPT !.gets = @ + 1, !.resp = o]
          IN  Upd(th, IF r.kind = "raise"
                      THEN IF r.exc = "SauceRestError"
                           THEN [f EXCEPT !.pc = "done", !.ret = Return("False")]
                           ELSE [f EXCEPT !.pc = "done", !.ret = Raise(r.exc)]
                      ELSE [f EXCEPT !.pc = "ith_status", !.tunnel = r.doc])
    /\ UNCHANGED <<unhealthy_tunnels, SLEEP_INTERVAL, TIMEOUT, reports>>

\* the slip of probing whatever the status is
IthStatus_AlwaysProbes(th) ==
    /\ frame[th].pc = "ith_status"
    /\ Upd(th, [frame[th] EXCEPT !.pc = "ssh_loop",
                                 !.host = frame[th].tunnel.Host,
                                 !.connect_tries = DefaultConnectTries])
    /\ UNCHANGED <<unhealthy_tunnels, SLEEP_INTERVAL, TIMEOUT, reports>>

\* if tunnel['Status'] != 'running': return False
\* return self._is_ssh_host_up(tunnel['Host'])
IthStatus(th) ==
    /\ frame[th].pc = "ith_status"
    /\ Upd(th, IF frame[th].tunnel.Status # "running"
               THEN [frame[th] EXCEPT !.pc = "done", !.ret = Return("False")]
               ELSE [frame[th] EXCEPT !.pc = "ssh_loop",
                                      !.host = frame[th].tunnel.Host,
                                      !.connect_tries = DefaultConnectTries])
    /\ UNCHANGED <<unhealthy_tunnels, SLEEP_INTERVAL, TIMEOUT, reports>>

\* ------------------------------------------------- prune_unhealthy_tunnels

\* the slip of difference_update for intersection_update
prune_Discards(th, S) ==
    /\ CanCall(th)
    /\ unhealthy_tunnels' = unhealthy_tunnels \ S
    /\ Upd(th, [NewFrame("prune_unhealthy_tunnels", "done")
                   EXCEPT !.tunnels_of_concern = S, !.ret = Return("None")])
    /\ UNCHANGED <<SLEEP_INTERVAL, TIMEOUT, reports>>

\* self.unhealthy_tunnels.intersection_update(tunnels_of_concern)
prune_unhealthy_tunnels(th, S) ==
    /\ CanCall(th)
    /\ unhealthy_tunnels' = unhealthy_tunnels \cap S
    /\ Upd(th, [NewFrame("prune_unhealthy_tunnels", "done")
                   EXCEPT !.tunnels_of_concern = S, !.ret = Return("None")])
    /\ UNCHANGED <<SLEEP_INTERVAL, TIMEOUT, reports>>

\* --------------------------------------------------------- _is_ssh_host_up

\* data.startswith(prefix)
startswith(data, prefix) ==
    /\ Len(data) >= Len(prefix)
    /\ SubSeq(data, 1, Len(prefix)) = prefix

\* the slip of testing for "SSH" without the dash
IsSshBanner_Loose(data) == data # <<>> /\ startswith(data, <<"S", "S", "H">>)

\* if data and data.startswith("SSH-")
IsSshBanner(data) == data # <<>> /\ startswith(data, SSHPrefix)

\* a direct call of the probe
Call_is_ssh_host_up(th, h, tries) ==
    /\ CanCall(th)
    /\ Upd(th, [NewFrame("_is_ssh_host_up", "ssh_loop")
                   EXCEPT !.host = h, !.connect_tries = tries])
    /\ UNCHANGED <<unhealthy_tunnels, SLEEP_INTERVAL, TIMEOUT, reports>>

\* the slip of retrying after data that is no SSH banner
SshAttempt_RetriesBadBanner(th) ==
    /\ frame[th].pc = "ssh_loop"
    /\ frame[th].i < frame[th].connect_tries
    /\ \E s \in SockOutcomes :
          LET f == [frame[th] EXCEPT !.attempts = @ + 1,
                                     !.connected = (s.kind = "data"),
                                     !.data = s.data]
          IN  Upd(th, IF s.kind = "data" /\ IsSshBanner(s.data)
                      THEN [f EXCEPT !.pc = "done", !.ret = Return("True")]
                      ELSE [f EXCEPT !.i = @ + 1])
    /\ UNCHANGED <<unhealthy_tunnels, SLEEP_INTERVAL, TIMEOUT, reports>>

\* one pass of `for i in xrange(connect_tries)`: connect, recv, and the
\* handling of what they end with
SshAttempt(th) ==
    /\ frame[th].pc = "ssh_loop"
    /\ frame[th].i < frame[th].connect_tries
    /\ \E s \in SockOutcomes :
          LET f == [frame[th] EXCEPT !.attempts = @ + 1,
                                     !.connected = (s.kind = "data"),
                                     !.data = s.data]
          IN  Upd(th, IF s.kind = "data"
                      THEN [f EXCEPT !.pc = "done",
                                     !.ret = IF IsSshBanner(s.data)
                                             THEN Return("True")
                                             ELSE Return("False")]
                      ELSE [f EXCEPT !.i = @ + 1])
    /\ UNCHANGED <<unhealthy_tunnels, SLEEP_INTERVAL, TIMEOUT, reports>>

\* the slip of giving up one attempt early
SshExhausted_OffByOne(th) ==
    /\ frame[th].pc = "ssh_loop"
    /\ frame[th].i + 1 >= frame[th].connect_tries
    /\ Upd(th, [frame[th] EXCEPT !.pc = "done", !.ret = Return("None")])
    /\ UNCHANGED <<unhealthy_tunnels, SLEEP_INTERVAL, TIMEOUT, reports>>

\* the loop ran out of attempts: the function ends without a return statement
SshExhausted(th) ==
    /\ frame[th].pc = "ssh_loop"
    /\ frame[th].i >= frame[th].connect_tries
    /\ Upd(th, [frame[th] EXCEPT !.pc = "done", !.ret = Return("None")])
    /\ UNCHANGED <<unhealthy_tunnels, SLEEP_INTERVAL, TIMEOUT, reports>>

\* ----------------------------------------------------------- wait_for_jobs

\* len([j for j in jobs if j['Status'] == status])
RECURSIVE CountStatus(_, _)
CountStatus(jobs, status) ==
    IF jobs = <<>> THEN 0
    ELSE (IF Head(jobs) = status THEN 1 ELSE 0) + CountStatus(Tail(jobs), status)

\* the slip of counting only the jobs that completed
AllFinished_OnlyComplete(jobs) ==
    CountStatus(jobs, "complete") = Len(jobs)

\* the slip of treating the empty batch as unfinished
AllFinished_NonEmpty(jobs) ==
    /\ Len(jobs) > 0
    /\ CountStatus(jobs, "complete") + CountStatus(jobs, "error") = Len(jobs)

\* the slip of returning as soon as some job has finished
AllFinished_Any(jobs) ==
    \/ Len(jobs) = 0
    \/ CountStatus(jobs, "complete") + CountStatus(jobs, "error") > 0

\* total_comp + total_err == len(jobs)
AllFinished(jobs) ==
    CountStatus(jobs, "complete") + CountStatus(jobs, "error") = Len(jobs)

\* t = 0; the batch of batch_id has n jobs
Call_wait_for_jobs(th, n) ==
    /\ CanCall(th)
    /\ Upd(th, [NewFrame("wait_for_jobs", "wfj_loop") EXCEPT !.n = n])
    /\ UNCHANGED <<unhealthy_tunnels, SLEEP_INTERVAL, TIMEOUT, reports>>

\* the slip of ending the loop without the raise
WfjLoop_Silent(th) ==
    /\ frame[th].pc = "wfj_loop"
    /\ Upd(th, IF frame[th].t < TIMEOUT
               THEN [frame[th] EXCEPT !.pc = "wfj_fetch"]
               ELSE [frame[th] EXCEPT !.pc = "done", !.ret = Return("None")])
    /\ UNCHANGED <<unhealthy_tunnels, SLEEP_INTERVAL, TIMEOUT, reports>>

\* the slip of `<=` for `<` in the test of the loop
WfjLoop_OffByOne(th) ==
    /\ frame[th].pc = "wfj_loop"
    /\ Upd(th, IF frame[th].t <= TIMEOUT
               THEN [frame[th] EXCEPT !.pc = "wfj_fetch"]
               ELSE [frame[th] EXCEPT !.pc = "done", !.ret = Raise("Timeout")])
    /\ UNCHANGED <<unhealthy_tunnels, SLEEP_INTERVAL, TIMEOUT, reports>>

\* while t < self.TIMEOUT: ...
\* if t >= self.TIMEOUT: raise Exception("Timed out ...")
WfjLoop(th) ==
    /\ frame[th].pc = "wfj_loop"
    /\ Upd(th, IF frame[th].t < TIMEOUT
               THEN [frame[th] EXCEPT !.pc = "wfj_fetch"]
               ELSE IF frame[th].t >= TIMEOUT
                    THEN [frame[th] EXCEPT !.pc = "done", !.ret = Raise("Timeout")]
                    ELSE [frame[th] EXCEPT !.pc = "done", !.ret = Return("None")])
    /\ UNCHANGED <<unhealthy_tunnels, SLEEP_INTERVAL, TIMEOUT, reports>>

\* one pass of the loop body: jobs = self.get_jobs(batch=batch_id), the two
\* counts and the return, or else time.sleep(self.SLEEP_INTERVAL) and
\* t += self.SLEEP_INTERVAL.  frame.jobs keeps the list the call returned on;
\* a list that sent the call to sleep is dropped at the next fetch.
WfjIter(th) ==
    /\ frame[th].pc = "wfj_fetch"
    /\ frame[th].fetches < MaxFetches
    /\ \E o \in GetJobsOutcomes(frame[th].n) :
          LET seen == IF o.exc # "none" THEN "raised"
                      ELSE IF AllTerminal(o.jobs) THEN "terminal" ELSE "pending"
              f == [frame[th] EXCEPT !.fetches = @ + 1,
                                     !.first = IF @ = "-" THEN seen ELSE @,
                                     !.allPending = @ /\ seen = "pending"]
          IN  Upd(th, IF o.exc # "none"
                      THEN [f EXCEPT !.pc = "done", !.ret = Raise(o.exc)]
                      ELSE IF AllFinished(o.jobs)
                           THEN [f EXCEPT !.pc = "done", !.ret = Return("None"),
                                          !.jobs = o.jobs]
                           ELSE [f EXCEPT !.pc = "wfj_loop", !.sleeps = @ + 1,
                                          !.t = @ + SLEEP_INTERVAL])
    /\ UNCHANGED <<unhealthy_tunnels, SLEEP_INTERVAL, TIMEOUT, reports>>

\* ----------------------------------------------- delete_tunnels_by_domains

\* what a list_tunnels or delete_tunnel request ends with here: a parsed
\* answer, or a transport failure
RequestOutcomes ==
    { o \in HttpOutcomes :
         \/ o.exc = "socket.error"
         \/ o.exc = "none" /\ o.content = [valid |-> TRUE, Status |-> "running", Host |-> "h1"] }

\* (d for d in domains if d in tunnel['DomainNames'])
RECURSIVE MatchingDomains(_, _)
MatchingDomains(domains, DomainNames) ==
    IF domains = <<>> THEN <<>>
    ELSE IF Head(domains) \in DomainNames
         THEN <<Head(domains)>> \o MatchingDomains(Tail(domains), DomainNames)
         ELSE MatchingDomains(Tail(domains), DomainNames)

Call_delete_tunnels_by_domains(th, domains) ==
    /\ CanCall(th)
    /\ Upd(th, [NewFrame("delete_tunnels_by_domains", "dtd_list")
                   EXCEPT !.domains = domains])
    /\ UNCHANGED <<unhealthy_tunnels, SLEEP_INTERVAL, TIMEOUT, reports>>

\* for tunnel in self.list_tunnels(): the request of the list
DtdList(th) ==
    /\ frame[th].pc = "dtd_list"
    /\ \E o \in RequestOutcomes, l \in Listings(MaxListed) :
          LET r == list(o)
          IN  Upd(th, IF r.kind = "raise"
                      THEN [frame[th] EXCEPT !.pc = "done", !.ret = Raise(r.exc)]
                      ELSE [frame[th] EXCEPT !.pc = "dtd_loop", !.tunnels = l,
                                             !.k = 1,
                                             !.deletes = [j \in 1..Len(l) |-> 0]])
    /\ UNCHANGED <<unhealthy_tunnels, SLEEP_INTERVAL, TIMEOUT, reports>>

\* one pass of the outer loop: the inner loop over the requested domains
\* that the tunnel serves issues self.delete_tunnel(tunnel['_id']) for each
\* of them; a delete that raises ends the call.  fail is the place of the
\* delete that raises, 0 when none does.
DtdTunnel(th) ==
    /\ frame[th].pc = "dtd_loop"
    /\ IF frame[th].k > Len(frame[th].tunnels)
       THEN Upd(th, [frame[th] EXCEPT !.pc = "done", !.ret = Return("None")])
       ELSE LET matching == MatchingDomains(frame[th].domains,
                                            frame[th].tunnels[frame[th].k])
            IN  \E fail \in 0..Len(matching), o \in RequestOutcomes :
                   /\ (fail = 0) = (delete(o).kind = "return")
                   /\ Upd(th, IF fail = 0
                              THEN [frame[th] EXCEPT
                                       !.deletes[frame[th].k] = Len(matching),
                                       !.k = @ + 1]
                              ELSE [frame[th] EXCEPT
                                       !.deletes[frame[th].k] = fail,
                                       !.pc = "done",
                                       !.ret = Raise(delete(o).exc)])
    /\ UNCHANGED <<unhealthy_tunnels, SLEEP_INTERVAL, TIMEOUT, reports>>

\* ------------------------------------------------------- the specification

\* what thread th can do next
Step(th) ==
    \/ \E x \in TunnelIds : Flag(th, x)
    \/ \E si \in 0..MaxSleep, to \in 0..MaxTimeout : SetConfig(th, si, to)
    \/ \E x \in TunnelIds : Call_is_tunnel_healthy(th, x)
    \/ IthTest(th)
    \/ IthRemove(th)
    \/ IthGet(th)
    \/ IthStatus(th)
    \/ \E S \in SUBSET TunnelIds : prune_unhealthy_tunnels(th, S)
    \/ \E h \in Hosts, tries \in 0..MaxTries : Call_is_ssh_host_up(th, h, tries)
    \/ SshAttempt(th)
    \/ SshExhausted(th)
    \/ \E n \in 0..MaxJobs : Call_wait_for_jobs(th, n)
    \/ WfjLoop(th)
    \/ WfjIter(th)
    \/ \E c \in AccessorCalls : Accessor(th, c)
    \/ \E domains \in DomainLists : Call_delete_tunnels_by_domains(th, domains)
    \/ DtdList(th)
    \/ DtdTunnel(th)
    \/ Resume(th)

\* the single-threaded client: one caller, one call at a time
Next == Step(Main)

Spec == Init /\ [][Next]_vars

\* the tunnel the threads of SpecConc contend for
SharedTunnels == {"A"}

\* what a thread does to the tunnel monitor of a client it shares
MonitorStep(th) ==
    \/ \E x \in SharedTunnels : Flag(th, x)
    \/ \E x \in SharedTunnels : Call_is_tunnel_healthy(th, x)
    \/ IthTest(th)
    \/ IthRemove(th)
    \/ IthGet(th)
    \/ IthStatus(th)
    \/ SshAttempt(th)
    \/ SshExhausted(th)
    \/ \E S \in SUBSET SharedTunnels : prune_unhealthy_tunnels(th, S)
    \/ Resume(th)

\* two threads call the monitor of one client: the class takes no lock, and
\* the interpreter may switch threads between any two of a call's steps
NextConc == \E th \in Threads : MonitorStep(th)

SpecConc == Init /\ [][NextConc]_vars

\* ------------------------------------------------------------- the claims

\* the calls of is_tunnel_healthy, of the probe and of the poller that ended
EndedHealthCheck(th) ==
    frame[th].op = "is_tunnel_healthy" /\ frame[th].pc = "done"

EndedWait(th) ==
    frame[th].op = "wait_for_jobs" /\ frame[th].pc = "done"

\* C1: the flag is a one-shot signal.  A health check of a flagged tunnel
\* reports False and clears the flag, so that an identifier counts at most
\* one flag-based report per insertion and none while it is in the set; the
\* next check of that identifier, with no insertion in between, fetches the
\* tunnel record.
C1_OneShotFlag ==
    /\ \A x \in TunnelIds :
          /\ reports[x] <= 1
          /\ x \in unhealthy_tunnels => reports[x] = 0
    /\ \A th \in Threads :
          EndedHealthCheck(th) =>
             /\ frame[th].tunnel_id \in frame[th].U0 =>
                   /\ frame[th].ret = Return("False")
                   /\ frame[th].tunnel_id \notin unhealthy_tunnels
                   /\ reports[frame[th].tunnel_id] = 1
             /\ frame[th].reports0 = 1 => frame[th].gets = 1

\* a second check of an identifier, after the one that consumed its flag,
\* has fetched the tunnel record
C1_Witness ==
    \E th \in Threads :
       /\ EndedHealthCheck(th)
       /\ frame[th].reports0 = 1
       /\ frame[th].tunnel_id \notin frame[th].U0
       /\ frame[th].gets = 1

\* C2: a health check of a tunnel that is flagged when it is called fetches
\* no tunnel record and makes no connection attempt, at any point of the
\* call, and returns False.
C2_FlaggedShortCircuits ==
    \A th \in Threads :
       (frame[th].op = "is_tunnel_healthy" /\ frame[th].tunnel_id \in frame[th].U0) =>
          /\ frame[th].gets = 0
          /\ frame[th].attempts = 0
          /\ frame[th].pc \in {"ith_test", "ith_remove", "done"}
          /\ frame[th].pc = "done" => frame[th].ret = Return("False")

C2_Witness ==
    \E th \in Threads :
       /\ EndedHealthCheck(th)
       /\ frame[th].tunnel_id \in frame[th].U0
       /\ frame[th].ret = Return("False")
       /\ frame[th].gets = 0
       /\ frame[th].attempts = 0

\* C3: when the tunnel is not flagged and the fetched record's Status is not
\* 'running', the health check makes no connection attempt and returns
\* False.
C3_NonRunningSkipsProbe ==
    \A th \in Threads :
       ( /\ frame[th].op = "is_tunnel_healthy"
         /\ frame[th].tunnel_id \notin frame[th].U0
         /\ frame[th].gets = 1
         /\ frame[th].tunnel.valid
         /\ frame[th].tunnel.Status # "running" ) =>
          /\ frame[th].attempts = 0
          /\ frame[th].pc \in {"ith_status", "done"}
          /\ frame[th].pc = "done" => frame[th].ret = Return("False")

C3_Witness ==
    \E th \in Threads :
       /\ EndedHealthCheck(th)
       /\ frame[th].tunnel_id \notin frame[th].U0
       /\ frame[th].tunnel.valid
       /\ frame[th].tunnel.Status = "halted"
       /\ frame[th].ret = Return("False")
       /\ frame[th].attempts = 0

\* C4: when the tunnel is not flagged, the fetched record's Status is
\* 'running' and every connection attempt of the probe fails by timeout or
\* socket error, the health check returns the boolean False.
C4_ProbeNeverConnectsIsFalse ==
    \A th \in Threads :
       ( /\ EndedHealthCheck(th)
         /\ frame[th].tunnel_id \notin frame[th].U0
         /\ frame[th].tunnel.valid
         /\ frame[th].tunnel.Status = "running"
         /\ ~frame[th].connected
         /\ frame[th].i = frame[th].attempts ) =>
          frame[th].ret = Return("False")

\* the transport failures and the malformed bodies that reach
\* is_tunnel_healthy as SauceRestError
ClientErrorResponse(o) ==
    \/ o.exc \in {"ServerNotFoundError", "socket.error", "AttributeError"}
    \/ o.exc = "none" /\ ~o.content.valid

\* C5: when the tunnel is not flagged and the fetch of its record fails with
\* a client error (a transport failure, or a body that is no JSON), the
\* health check returns False, raises nothing, makes no connection attempt
\* and leaves the unhealthy set as it was.
C5_FetchErrorIsUnhealthy ==
    \A th \in Threads :
       ( /\ EndedHealthCheck(th)
         /\ frame[th].gets = 1
         /\ ClientErrorResponse(frame[th].resp) ) =>
          /\ frame[th].ret = Return("False")
          /\ frame[th].attempts = 0
          /\ unhealthy_tunnels = frame[th].U0

C5_Witness ==
    \E th \in Threads :
       /\ EndedHealthCheck(th)
       /\ frame[th].gets = 1
       /\ frame[th].resp.exc = "AttributeError"
       /\ frame[th].U0 # {}
       /\ frame[th].ret = Return("False")

\* C6: prune_unhealthy_tunnels(S) called with the unhealthy set U leaves the
\* set U \cap S, and fetches nothing and probes nothing.
C6_PruneIsIntersection ==
    \A th \in Threads :
       (frame[th].op = "prune_unhealthy_tunnels" /\ frame[th].pc = "done") =>
          /\ unhealthy_tunnels = frame[th].U0 \cap frame[th].tunnels_of_concern
          /\ frame[th].gets = 0
          /\ frame[th].attempts = 0
          /\ frame[th].fetches = 0

\* U = {A, C} and S = {A, B} leave {A}
C6_Witness ==
    \E th \in Threads :
       /\ frame[th].op = "prune_unhealthy_tunnels"
       /\ frame[th].pc = "done"
       /\ frame[th].U0 = {"A", "C"}
       /\ frame[th].tunnels_of_concern = {"A", "B"}
       /\ unhealthy_tunnels = {"A"}

\* C7: when the first fetch of a wait_for_jobs call shows every job of the
\* batch 'complete' or 'error', the call has returned, without raising, after
\* that one fetch and without sleeping.
C7_OnePollWhenAllTerminal ==
    \A th \in Threads :
       (frame[th].op = "wait_for_jobs" /\ frame[th].first = "terminal") =>
          /\ frame[th].pc = "done"
          /\ frame[th].ret = Return("None")
          /\ frame[th].fetches = 1
          /\ frame[th].sleeps = 0
          /\ frame[th].t = 0

C7_Witness ==
    \E th \in Threads :
       /\ EndedWait(th)
       /\ frame[th].jobs = <<"complete", "error">>
       /\ frame[th].ret = Return("None")
       /\ frame[th].fetches = 1

\* C8 as stated: for an empty batch wait_for_jobs returns successfully and
\* without sleeping, whatever SLEEP_INTERVAL and TIMEOUT are (the fetch
\* itself not failing).
C8_EmptyBatchAnyConfig ==
    \A th \in Threads :
       (EndedWait(th) /\ frame[th].n = 0 /\ frame[th].first # "raised") =>
          /\ frame[th].ret = Return("None")
          /\ frame[th].sleeps = 0

\* C8, amended: for an empty batch and a TIMEOUT above 0, wait_for_jobs
\* returns successfully after one fetch and without sleeping, whatever
\* SLEEP_INTERVAL is (the fetch itself not failing); with a TIMEOUT of 0 or
\* less it fetches nothing and raises the timeout failure.
C8_EmptyBatchPositiveTimeout ==
    \A th \in Threads :
       (EndedWait(th) /\ frame[th].n = 0 /\ frame[th].first # "raised") =>
          IF TIMEOUT > 0
          THEN /\ frame[th].ret = Return("None")
               /\ frame[th].fetches = 1
               /\ frame[th].sleeps = 0
          ELSE /\ frame[th].ret = Raise("Timeout")
               /\ frame[th].fetches = 0

\* an empty batch has been waited for with a configured interval and timeout
C8_Witness ==
    \E th \in Threads :
       /\ EndedWait(th)
       /\ frame[th].n = 0
       /\ frame[th].ret = Return("None")
       /\ frame[th].fetches = 1
       /\ SLEEP_INTERVAL = 0
       /\ TIMEOUT = 1

\* C9: a wait_for_jobs call whose every fetch showed a job that is not
\* terminal never returns normally: it fetches only while elapsed, the sum
\* of the sleeps taken, is below TIMEOUT, and it ends by raising the timeout
\* failure with elapsed at or above TIMEOUT.
C9_NeverFinishedTimesOut ==
    \A th \in Threads :
       (frame[th].op = "wait_for_jobs" /\ frame[th].allPending) =>
          /\ frame[th].t = frame[th].sleeps * SLEEP_INTERVAL
          /\ frame[th].pc = "wfj_fetch" => frame[th].t < TIMEOUT
          /\ frame[th].pc = "done" =>
                /\ frame[th].ret = Raise("Timeout")
                /\ frame[th].t >= TIMEOUT

\* the timeout failure after sleeps
C9_Witness ==
    \E th \in Threads :
       /\ EndedWait(th)
       /\ frame[th].allPending
       /\ frame[th].sleeps >= 2
       /\ frame[th].ret = Raise("Timeout")

\* C10: the probe returns True only when its last attempt connected and
\* read data whose first four characters are "SSH-".
C10_TrueOnlyOnSshBanner ==
    \A th \in Threads :
       ( /\ frame[th].op \in {"_is_ssh_host_up", "is_tunnel_healthy"}
         /\ frame[th].pc = "done"
         /\ frame[th].ret = Return("True") ) =>
          /\ frame[th].connected
          /\ frame[th].attempts >= 1
          /\ Len(frame[th].data) >= 4
          /\ frame[th].data[1] = "S"
          /\ frame[th].data[2] = "S"
          /\ frame[th].data[3] = "H"
          /\ frame[th].data[4] = "-"

\* True on the third attempt, after two that failed
C10_Witness ==
    \E th \in Threads :
       /\ frame[th].op = "_is_ssh_host_up"
       /\ frame[th].pc = "done"
       /\ frame[th].ret = Return("True")
       /\ frame[th].i = 2
       /\ frame[th].attempts = 3


\* the frames in which the probe runs or has run
InProbe(th) ==
    \/ frame[th].op = "_is_ssh_host_up"
    \/ frame[th].op = "is_tunnel_healthy" /\ frame[th].host # "-"

\* the data begins with the four characters "SSH-"
BeginsWithSsh(data) ==
    /\ Len(data) >= 4
    /\ data[1] = "S"
    /\ data[2] = "S"
    /\ data[3] = "H"
    /\ data[4] = "-"

\* C11: the first attempt of the probe that connects and reads data not
\* beginning with "SSH-" (an empty read included) ends the probe with False:
\* it is the last attempt, whatever number of attempts remains.
C11_BadBannerFailsFast ==
    \A th \in Threads :
       (InProbe(th) /\ frame[th].connected /\ ~BeginsWithSsh(frame[th].data)) =>
          /\ frame[th].pc = "done"
          /\ frame[th].ret = Return("False")
          /\ frame[th].attempts = frame[th].i + 1

\* an empty read on the second of four attempts ended the probe
C11_Witness ==
    \E th \in Threads :
       /\ frame[th].op = "_is_ssh_host_up"
       /\ frame[th].pc = "done"
       /\ frame[th].connected
       /\ frame[th].data = <<>>
       /\ frame[th].connect_tries = 4
       /\ frame[th].attempts = 2
       /\ frame[th].ret = Return("False")

\* the probe never makes more than connect_tries attempts, and when it ended
\* without having connected it made exactly connect_tries of them, all
\* failed, and returned None
C12_AttemptsBounded ==
    \A th \in Threads :
       /\ frame[th].attempts <= frame[th].connect_tries
       /\ (InProbe(th) /\ frame[th].pc = "done" /\ ~frame[th].connected) =>
             /\ frame[th].attempts = frame[th].connect_tries
             /\ frame[th].i = frame[th].attempts
             /\ frame[th].ret = Return("None")

\* the step of a probe that has made fewer than connect_tries attempts is
\* another attempt
C12_RetryStep ==
    \A th \in Threads :
       ( /\ frame[th].pc = "ssh_loop"
         /\ frame'[th] # frame[th]
         /\ frame[th].attempts < frame[th].connect_tries ) =>
          frame'[th].attempts = frame[th].attempts + 1

\* C12: an attempt of the probe that fails by timeout or socket error is
\* followed by another attempt while fewer than connect_tries were made;
\* when all fail the probe makes exactly connect_tries attempts and returns
\* None, neither True nor False and no exception; no run makes more than
\* connect_tries attempts.
C12_RetriesUpToConnectTries ==
    []C12_AttemptsBounded /\ [][C12_RetryStep]_vars

\* four attempts out of four failed and the probe returned None
C12_Witness ==
    \E th \in Threads :
       /\ frame[th].op = "_is_ssh_host_up"
       /\ frame[th].pc = "done"
       /\ frame[th].connect_tries = 4
       /\ frame[th].attempts = 4
       /\ ~frame[th].connected
       /\ frame[th].ret = Return("None")


\* C13: under concurrent calls on one client, with the membership test and
\* the removal of is_tunnel_healthy as separate steps, no call fails because
\* it removes an identifier that is no longer in the set, and a flagged
\* identifier is consumed by at most one health check.
C13_ConcurrentCallsSafe ==
    /\ \A th \in Threads : frame[th].ret # Raise("KeyError")
    /\ \A x \in TunnelIds : reports[x] <= 1


\* the failures of the HTTP request that are transport failures: name
\* resolution, connection and socket errors, no connection object
TransportFailures == {"ServerNotFoundError", "socket.error", "AttributeError"}

\* C14: for each accessor operation (get, list, create, attach, delete) a
\* transport failure of the HTTP request reaches the caller as
\* SauceRestError and as no other error kind, and never as a normal result.
C14_TransportFailureIsClientError ==
    \A th \in Threads :
       ( /\ frame[th].op \in AccessorNames
         /\ frame[th].pc = "done"
         /\ frame[th].resp.exc \in TransportFailures ) =>
          frame[th].ret = Raise("SauceRestError")

\* attach met a socket error and raised SauceRestError
C14_Witness ==
    \E th \in Threads :
       /\ frame[th].op = "attach"
       /\ frame[th].pc = "done"
       /\ frame[th].resp.exc = "socket.error"
       /\ frame[th].ret = Raise("SauceRestError")


\* C15: is_tunnel_healthy returns True only if, in that call, the tunnel was
\* not in the unhealthy set, the fetch of its record succeeded, the record's
\* Status was 'running' and the probe of the record's Host returned True;
\* whenever the call reaches the probe its result is the probe's.
C15_HealthyOnlyThroughProbe ==
    \A th \in Threads :
       EndedHealthCheck(th) =>
          /\ frame[th].ret = Return("True") =>
                /\ frame[th].tunnel_id \notin frame[th].U0
                /\ frame[th].gets = 1
                /\ frame[th].resp.exc = "none"
                /\ frame[th].resp.content.valid
                /\ frame[th].resp.content.Status = "running"
                /\ frame[th].host = frame[th].resp.content.Host
                /\ frame[th].connect_tries = DefaultConnectTries
                /\ frame[th].connected
                /\ BeginsWithSsh(frame[th].data)
          /\ InProbe(th) =>
                frame[th].ret =
                   IF frame[th].connected
                   THEN IF BeginsWithSsh(frame[th].data)
                        THEN Return("True") ELSE Return("False")
                   ELSE Return("None")

\* a healthy tunnel: a running record whose host h2 answered with a banner
C15_Witness ==
    \E th \in Threads :
       /\ EndedHealthCheck(th)
       /\ frame[th].ret = Return("True")
       /\ frame[th].U0 # {}
       /\ frame[th].host = "h2"
       /\ frame[th].data = <<"S", "S", "H", "-", "2">>


\* the domains of a list, as a set
Range(seq) == { seq[j] : j \in 1..Len(seq) }

\* C19: delete_tunnels_by_domains(domains) issues a delete request exactly
\* once for each listed tunnel whose DomainNames contains at least one of
\* the requested domains, also when it contains several of them, and none
\* for a tunnel that shares no domain with the request.
C19_OneDeletePerMatchingTunnel ==
    \A th \in Threads :
       ( /\ frame[th].op = "delete_tunnels_by_domains"
         /\ frame[th].pc = "done"
         /\ frame[th].ret = Return("None") ) =>
          \A j \in 1..Len(frame[th].tunnels) :
             frame[th].deletes[j] =
                IF frame[th].tunnels[j] \cap Range(frame[th].domains) # {}
                THEN 1 ELSE 0


\* C16: the unhealthy set only shrinks through the client.
\* is_tunnel_healthy(x) removes at most x, and nothing when x was not
\* flagged; prune_unhealthy_tunnels(S) removes exactly the identifiers
\* outside S; wait_for_jobs, the accessors, delete_tunnels_by_domains and the
\* probe leave the set as it was when they were called.
C16_SetOnlyShrinks ==
    \A th \in Threads :
       LET f == frame[th]
       IN  /\ f.op = "is_tunnel_healthy" =>
                /\ f.tunnel_id \notin f.U0 => unhealthy_tunnels = f.U0
                /\ unhealthy_tunnels \in {f.U0, f.U0 \ {f.tunnel_id}}
           /\ f.op = "prune_unhealthy_tunnels" =>
                /\ unhealthy_tunnels \subseteq f.U0
                /\ f.U0 \ unhealthy_tunnels = f.U0 \ f.tunnels_of_concern
           /\ f.op \in AccessorNames \cup {"wait_for_jobs", "_is_ssh_host_up",
                                           "delete_tunnels_by_domains"} =>
                unhealthy_tunnels = f.U0

\* a health check of A took A, and only A, out of {A, B, C}
C16_Witness ==
    \E th \in Threads :
       /\ EndedHealthCheck(th)
       /\ frame[th].tunnel_id = "A"
       /\ frame[th].U0 = {"A", "B", "C"}
       /\ unhealthy_tunnels = {"B", "C"}

\* C17: wait_for_jobs returns normally only if the last fetch of the call
\* showed every job of the batch 'complete' or 'error'; it never returns
\* normally with a fetched job pending or running, nor by running out of
\* time.
C17_ReturnsOnlyWhenAllTerminal ==
    \A th \in Threads :
       (EndedWait(th) /\ frame[th].ret.kind = "return") =>
          /\ frame[th].fetches >= 1
          /\ Len(frame[th].jobs) = frame[th].n
          /\ AllTerminal(frame[th].jobs)
          /\ frame[th].t < TIMEOUT

\* a return on the second fetch or later, with one job complete and one in error
C17_Witness ==
    \E th \in Threads :
       /\ EndedWait(th)
       /\ frame[th].ret = Return("None")
       /\ frame[th].sleeps >= 1
       /\ frame[th].jobs = <<"error", "complete">>

\* the least integer not below a / b, for b above 0
CeilDiv(a, b) == (a + b - 1) \div b

\* the fetches the claim allows a call: ceil(TIMEOUT / SLEEP_INTERVAL).
\* With an interval of 0 the quotient does not exist; the bound is then
\* taken as TIMEOUT, the most that any positive whole interval allows.
ClaimedFetches ==
    IF TIMEOUT <= 0 THEN 0
    ELSE IF SLEEP_INTERVAL > 0 THEN CeilDiv(TIMEOUT, SLEEP_INTERVAL)
    ELSE TIMEOUT

\* C18 as stated: for every configured SLEEP_INTERVAL and TIMEOUT the loop
\* is bounded: elapsed is the sum of the sleeps and grows with every poll
\* that sleeps, a fetch happens only while elapsed < TIMEOUT, and a call
\* performs at most ceil(TIMEOUT / SLEEP_INTERVAL) fetches.
C18_BoundedForEveryConfig ==
    \A th \in Threads :
       frame[th].op = "wait_for_jobs" =>
          /\ frame[th].t = frame[th].sleeps * SLEEP_INTERVAL
          /\ frame[th].sleeps >= 1 => frame[th].t > 0
          /\ frame[th].pc = "wfj_fetch" => frame[th].t < TIMEOUT
          /\ frame[th].fetches <= ClaimedFetches

\* C18, amended: for every TIMEOUT and every SLEEP_INTERVAL above 0 the loop
\* is bounded: elapsed starts at 0 and grows by SLEEP_INTERVAL per poll that
\* sleeps, a fetch happens only while elapsed < TIMEOUT, and a call performs
\* at most ceil(TIMEOUT / SLEEP_INTERVAL) fetches (60 with the defaults, none
\* with a TIMEOUT of 0).  With SLEEP_INTERVAL = 0 elapsed stays 0 and the
\* number of fetches has no bound.
C18_BoundedForPositiveInterval ==
    \A th \in Threads :
       frame[th].op = "wait_for_jobs" =>
          /\ frame[th].t = frame[th].sleeps * SLEEP_INTERVAL
          /\ frame[th].pc = "wfj_fetch" => frame[th].t < TIMEOUT
          /\ frame[th].sleeps <= frame[th].fetches
          /\ SLEEP_INTERVAL > 0 =>
                /\ frame[th].sleeps >= 1 => frame[th].t > 0
                /\ frame[th].fetches <= ClaimedFetches
                /\ (frame[th].pc = "wfj_loop" /\ frame[th].fetches = ClaimedFetches) =>
                      frame[th].t >= TIMEOUT

\* the defaults: the 60th fetch was the last, and the call raised
C18_Witness ==
    \E th \in Threads :
       /\ EndedWait(th)
       /\ SLEEP_INTERVAL = DefaultSleepInterval
       /\ TIMEOUT = DefaultTimeout
       /\ frame[th].fetches = 60
       /\ frame[th].t = 300
       /\ frame[th].ret = Raise("Timeout")

====
